---- MODULE Spec2Model ----
(***************************************************************************)
(* Model of the MRI reconstruction portal: the reconstruction record's     *)
(* life cycle (api/reconstruct.py, worker/tasks.py), the job function      *)
(* process_dicom_to_mesh_v2 (worker/reconstruction_v2.py), its series      *)
(* selection, and the coordinate conversion of the two meshing functions   *)
(* (processing/mesh.py).                                                   *)
(*                                                                         *)
(* The specifications that share the module:                               *)
(*   Spec       one reconstruction job, slice by slice, from upload to the *)
(*              terminal record;                                           *)
(*   SpecSel    the series-level decisions of process_dicom_to_mesh_v2     *)
(*              (memory guard, choose_primary_series, directory layout) on *)
(*              series with realistic slice counts and spacings;           *)
(*   SpecMesh   the voxel -> render-space conversion of mesh_from_mask and *)
(*              mask_to_mesh;                                              *)
(*   SpecPipe   run_reconstruction, stage by stage (pipeline.py);          *)
(*   SpecCancel run_reconstruction with a cancellation request arriving    *)
(*              at any stage;                                              *)
(*   SpecSeg    the slice-wise bone segmentation (processing/segment.py);  *)
(*   SpecVol    read_volume_sorted of the legacy worker                    *)
(*              (worker/reconstruction.py);                                *)
(*   SpecJobs   two jobs running side by side on one host and one store;   *)
(*   SpecApi    two users on the record and storage routes (api/).         *)
(*                                                                         *)
(* Text is modelled as sequences of one-character strings, so that         *)
(* upper(), substring tests and slicing are computed, not assumed.         *)
(* Spacings of the selection are in tenths of a millimetre.                *)
(***************************************************************************)
EXTENDS Integers, Sequences, FiniteSets, TLC

VARIABLES
    files,            \* the uploaded slices, in dicom_url order
    db,               \* the committed reconstruction record
    store,            \* object-store keys of output blobs
    queue,            \* task messages waiting for the worker
    deliveries,       \* task messages sent so far
    pc,               \* position of the worker inside process_reconstruction
    dicom_paths,      \* files downloaded into the workspace (indices into files)
    series_groups,    \* ordered mapping uid -> files, as a sequence of entries
    use_multi_plane,  \* the job's multi-plane flag
    series_roots,     \* directories handed to run_reconstruction
    fs,               \* workspace directories: name -> set of files
    result,           \* what process_dicom_to_mesh returned
    last,             \* how the last process_reconstruction ended
    resp,             \* the last answer of the download endpoint
    env_force_uid,    \* environment variable FORCE_SERIES_UID
    sel,              \* state of SpecSel
    mesh,             \* state of SpecMesh
    outputs,          \* mesh files exported into the workspace
    pipe,             \* state of SpecPipe and SpecCancel
    seg,              \* state of SpecSeg
    jobs,             \* state of SpecJobs
    vol,              \* state of SpecVol
    api               \* state of SpecApi

vars == <<files, db, store, queue, deliveries, pc, dicom_paths, series_groups,
          use_multi_plane, series_roots, fs, result, last, resp, env_force_uid,
          sel, mesh, outputs, pipe, seg, jobs, vol, api>>

jobVars == <<files, db, store, queue, deliveries, pc, dicom_paths, series_groups,
             use_multi_plane, series_roots, fs, result, last, resp, env_force_uid>>

----------------------------------------------------------------------------
(* Bounds of the model. *)

MaxFiles == 2
MaxDeliveries == 2
MaxSeries == 3
MaxIndex == 1

----------------------------------------------------------------------------
(* Text. *)

LowerChars == <<"a","b","c","d","e","f","g","h","i","j","k","l","m",
                "n","o","p","q","r","s","t","u","v","w","x","y","z">>

UpperChars == <<"A","B","C","D","E","F","G","H","I","J","K","L","M",
                "N","O","P","Q","R","S","T","U","V","W","X","Y","Z">>

\* str.upper() on one character.
UpperChar(c) ==
    IF \E i \in 1..Len(LowerChars) : LowerChars[i] = c
    THEN UpperChars[CHOOSE i \in 1..Len(LowerChars) : LowerChars[i] = c]
    ELSE c

\* str.upper().
Upper(s) == [i \in 1..Len(s) |-> UpperChar(s[i])]

\* sub in s.
Contains(sub, s) ==
    \E i \in 0..(Len(s) - Len(sub)) :
        \A j \in 1..Len(sub) : s[i + j] = sub[j]

\* s[:n].
Prefix(s, n) == SubSeq(s, 1, IF Len(s) < n THEN Len(s) ELSE n)

LOCALIZER == <<"L","O","C","A","L","I","Z","E","R">>
SCOUT == <<"S","C","O","U","T">>

----------------------------------------------------------------------------
(* Slices. *)

\* Series identifiers. U1 and U2 share their first eight characters.
U1 == <<"1",".","2",".","8","4","0",".","1">>
U2 == <<"1",".","2",".","8","4","0",".","2">>
U3 == <<"1",".","3",".","1","2",".","2","7">>
U4 == <<"2",".","1","6",".","7","5","6",".","5">>
NoUid == <<>>
UIDs == {U1, U2, U3, U4}

\* ImageType values as str() of the attribute.
ImgPrimary == <<"O","R","I","G","I","N","A","L","\\","P","R","I","M","A","R","Y">>
ImgLocalizerLower == <<"o","r","i","g","i","n","a","l","\\","l","o","c","a","l","i","z","e","r">>
ImgScoutMixed == <<"D","E","R","I","V","E","D","\\","S","c","o","u","t">>

\* One slice: readable (pydicom parses it), SeriesInstanceUID, ImageType,
\* SliceThickness and SpacingBetweenSlices in tenths of a millimetre (0: absent).
Slice(r, u, it, th, sb) ==
    [readable |-> r, uid |-> u, image_type |-> it, thickness |-> th, between |-> sb]

SliceKinds ==
    { Slice(TRUE, U1, ImgPrimary, 10, 0),
      Slice(TRUE, U2, ImgPrimary, 0, 30),
      Slice(TRUE, U3, ImgPrimary, 0, 0),
      Slice(TRUE, U1, ImgLocalizerLower, 10, 0),
      Slice(TRUE, U2, ImgScoutMixed, 50, 0),
      Slice(TRUE, NoUid, ImgPrimary, 10, 0),
      Slice(FALSE, NoUid, <<>>, 0, 0) }

\* The localizer test without upper(): a case-sensitive comparison.
IsLocalizerCaseSensitive(image_type) ==
    Contains(LOCALIZER, image_type) \/ Contains(SCOUT, image_type)

\* The localizer test of the grouping loop.
IsLocalizer(image_type) ==
    Contains(LOCALIZER, Upper(image_type)) \/ Contains(SCOUT, Upper(image_type))

----------------------------------------------------------------------------
(* Grouping by SeriesInstanceUID (the loop over dicom_paths). *)

\* series_groups[uid].append(path) on the ordered mapping: a new uid goes last.
AddToGroup(groups, u, f) ==
    IF \E i \in 1..Len(groups) : groups[i].uid = u
    THEN [i \in 1..Len(groups) |->
            IF groups[i].uid = u
            THEN [groups[i] EXCEPT !.files = Append(@, f)]
            ELSE groups[i]]
    ELSE Append(groups, [uid |-> u, files |-> <<f>>])

\* Whether the loop body reaches the append for this slice: an unreadable
\* file raises and is skipped, as is a slice with no uid or a localizer.
KeepsSlice(s) ==
    /\ s.readable
    /\ s.uid # NoUid
    /\ ~IsLocalizer(s.image_type)

RECURSIVE GroupSeries(_, _, _)
GroupSeries(fl, paths, groups) ==
    IF paths = <<>> THEN groups
    ELSE LET f == Head(paths)
         IN GroupSeries(fl, Tail(paths),
                        IF KeepsSlice(fl[f]) THEN AddToGroup(groups, fl[f].uid, f)
                        ELSE groups)

----------------------------------------------------------------------------
(* Series metadata and the memory guard. *)

FallbackZ == 40
OomMaxFiles == 200
OomMinSeries == 3
FineZ == 22
FineN == 40
ModerateZ == 35
ModerateN == 30

\* z_spacing of a series, read from its first file.
ZSpacing(s) ==
    IF s.thickness # 0 THEN s.thickness
    ELSE IF s.between # 0 THEN s.between
    ELSE FallbackZ

RECURSIVE SeqToSet(_)
SeqToSet(q) == IF q = <<>> THEN {} ELSE {Head(q)} \cup SeqToSet(Tail(q))

\* One series as the selection sees it: uid, what is copied for it, the
\* number of slices and the through-plane spacing.
Entry(u, it, n, z) == [uid |-> u, items |-> it, n |-> n, z |-> z]

\* series_meta of the grouped files.
EntriesOf(fl, groups) ==
    [i \in 1..Len(groups) |->
        Entry(groups[i].uid, SeqToSet(groups[i].files), Len(groups[i].files),
              ZSpacing(fl[groups[i].files[1]]))]

RECURSIVE TotalFiles(_)
TotalFiles(entries) ==
    IF entries = <<>> THEN 0 ELSE Head(entries).n + TotalFiles(Tail(entries))

\* The memory guard with both conditions required instead of either.
OomGuardBoth(use_mp, entries) ==
    IF /\ use_mp
       /\ Len(entries) > 1
       /\ (TotalFiles(entries) > OomMaxFiles /\ Len(entries) >= OomMinSeries)
    THEN FALSE
    ELSE use_mp

\* The flag after the memory guard.
OomGuard(use_mp, entries) ==
    IF /\ use_mp
       /\ Len(entries) > 1
       /\ (TotalFiles(entries) > OomMaxFiles \/ Len(entries) >= OomMinSeries)
    THEN FALSE
    ELSE use_mp

----------------------------------------------------------------------------
(* choose_primary_series. *)

NoForce == <<>>

\* The sort key (z, -n): a before b.
KeyLess(a, b) == a.z < b.z \/ (a.z = b.z /\ a.n > b.n)

\* list.sort is stable: x goes before the first element that is greater.
InsertSorted(sorted, x) ==
    LET later == {i \in 1..Len(sorted) : KeyLess(x, sorted[i])}
        pos == IF later = {} THEN Len(sorted) + 1
               ELSE CHOOSE i \in later : \A j \in later : i <= j
    IN SubSeq(sorted, 1, pos - 1) \o <<x>> \o SubSeq(sorted, pos, Len(sorted))

RECURSIVE SortCand(_, _)
SortCand(entries, sorted) ==
    IF entries = <<>> THEN sorted
    ELSE SortCand(Tail(entries), InsertSorted(sorted, Head(entries)))

\* pick(min_z, min_n): index of the first candidate within the limits, 0 for None.
Pick(cand, min_z, min_n) ==
    LET ok == {i \in 1..Len(cand) : cand[i].z <= min_z /\ cand[i].n >= min_n}
    IN IF ok = {} THEN 0 ELSE CHOOSE i \in ok : \A j \in ok : i <= j

\* max(cand, key=n): the first of the candidates with the most slices.
MaxBySlices(cand) ==
    LET top == {i \in 1..Len(cand) : \A j \in 1..Len(cand) : cand[j].n <= cand[i].n}
    IN CHOOSE i \in top : \A j \in top : i <= j

ChoosePrimarySeries(entries, force_uid) ==
    IF force_uid # NoForce /\ \E i \in 1..Len(entries) : entries[i].uid = force_uid
    THEN force_uid
    ELSE LET cand == SortCand(entries, <<>>)
             fine == Pick(cand, FineZ, FineN)
             moderate == Pick(cand, ModerateZ, ModerateN)
         IN IF fine # 0 THEN cand[fine].uid
            ELSE IF moderate # 0 THEN cand[moderate].uid
            ELSE cand[MaxBySlices(cand)].uid

----------------------------------------------------------------------------
(* The directories handed to run_reconstruction. *)

SingleDir == <<"series_single">>

\* temp_path / f"series_{sid[:8]}"
SeriesDir(sid) == <<"series_">> \o Prefix(sid, 8)

EntryOf(entries, u) == entries[CHOOSE i \in 1..Len(entries) : entries[i].uid = u]

\* Step 3 of process_dicom_to_mesh_v2: the branch taken, the primary series
\* of the single-series branch, the directories and what is copied into each.
PlanSeries(entries, use_mp, force_uid) ==
    IF use_mp /\ Len(entries) > 1
    THEN LET roots == [i \in 1..Len(entries) |-> SeriesDir(entries[i].uid)]
         IN [multi |-> TRUE,
             primary |-> NoUid,
             roots |-> roots,
             fs |-> [d \in SeqToSet(roots) |->
                        UNION {entries[i].items :
                                 i \in {j \in 1..Len(entries) : roots[j] = d}}]]
    ELSE LET p == ChoosePrimarySeries(entries, force_uid)
         IN [multi |-> FALSE,
             primary |-> p,
             roots |-> <<SingleDir>>,
             fs |-> [d \in {SingleDir} |-> EntryOf(entries, p).items]]

----------------------------------------------------------------------------
(* The reconstruction record, results and object keys. *)

\* None, for a text column and for a key column.
None == "<None>"
NoKey == <<>>
RecId == "r1"

NoRecord ==
    [status |-> "absent", stl_url |-> NoKey, gltf_url |-> NoKey, error_message |-> None]

\* Reconstruction(id=..., dicom_url=..., status="pending")
NewRecord ==
    [status |-> "pending", stl_url |-> NoKey, gltf_url |-> NoKey, error_message |-> None]

\* f"mesh/{reconstruction.id}/mesh.glb" and f"mesh/{reconstruction.id}/mesh.stl"
GlbKey(id) == <<"mesh", id, "mesh.glb">>
StlKey(id) == <<"mesh", id, "mesh.stl">>

NoResult == [status |-> "none"]

\* {"status": "error", "message": msg}
ErrorResult(msg) == [status |-> "error", message |-> msg]

\* {"status": "success", "stl_url": ..., "gltf_url": ...}
SuccessResult(id) ==
    [status |-> "success", stl_url |-> StlKey(id), gltf_url |-> GlbKey(id)]

\* dict.get(key, default)
DictGet(d, key, default) == IF key \in DOMAIN d THEN d[key] ELSE default

\* Messages of the exceptions run_reconstruction raises, as wrapped by the
\* handler of process_dicom_to_mesh_v2.
PipelineErrors ==
    { "Processing failed: No DICOM stacks loaded",
      "Processing failed: No meshes generated (check tissue options)" }

UploadError == "Processing failed: Failed to upload file"
DbError == "database error"

EmptyFs == [d \in {} |-> {}]

\* The commit after a success without the reset of error_message.
RecordAfterKeepsError(rec, res) ==
    IF res["status"] = "success"
    THEN [status |-> "completed",
          stl_url |-> DictGet(res, "stl_url", NoKey),
          gltf_url |-> DictGet(res, "gltf_url", NoKey),
          error_message |-> rec.error_message]
    ELSE [rec EXCEPT !.status = "failed",
                     !.error_message = DictGet(res, "error", "Unknown error")]

\* The record process_reconstruction commits after process_dicom_to_mesh
\* returned `res`.
RecordAfter(rec, res) ==
    IF res["status"] = "success"
    THEN [status |-> "completed",
          stl_url |-> DictGet(res, "stl_url", NoKey),
          gltf_url |-> DictGet(res, "gltf_url", NoKey),
          error_message |-> None]
    ELSE [rec EXCEPT !.status = "failed",
                     !.error_message = DictGet(res, "error", "Unknown error")]

\* The record the exception handler of process_reconstruction commits.
RecordAfterException(rec, msg) ==
    [rec EXCEPT !.status = "failed", !.error_message = msg]

\* storage_client.get_presigned_url
PresignedUrl(object_name) == <<"/api/v1/storage/">> \o object_name

\* download_reconstruction: the HTTP status and the URL returned.
DownloadResponse(rec, format) ==
    IF rec.status = "absent" THEN [code |-> 404, url |-> NoKey]
    ELSE IF rec.status # "completed" THEN [code |-> 400, url |-> NoKey]
    ELSE IF format = "stl" /\ rec.stl_url # NoKey
         THEN [code |-> 200, url |-> PresignedUrl(rec.stl_url)]
    ELSE IF format = "gltf" /\ rec.gltf_url # NoKey
         THEN [code |-> 200, url |-> PresignedUrl(rec.gltf_url)]
    ELSE [code |-> 404, url |-> NoKey]

NoResponse == [code |-> 0, url |-> NoKey]

RECURSIVE Ascending(_)
Ascending(S) ==
    IF S = {} THEN <<>>
    ELSE LET m == CHOOSE x \in S : \A y \in S : x <= y
         IN <<m>> \o Ascending(S \ {m})

ForceChoices == {NoForce, U2}

SelIdle == [pc |-> "off"]
MeshIdle == [pc |-> "off"]
PipeIdle == [pc |-> "off"]
SegIdle == [pc |-> "off"]
Off == [pc |-> "off"]

\* Path(opts.output_dir) / f"{opts.recon_id}.glb" and ".stl"
GlbPath(id) == <<"output", id, "glb">>
StlPath(id) == <<"output", id, "stl">>

----------------------------------------------------------------------------
(* Spec: one reconstruction job. *)

Init ==
    /\ files = <<>>
    /\ db = NoRecord
    /\ store = {}
    /\ queue = 0
    /\ deliveries = 0
    /\ pc = "idle"
    /\ dicom_paths = <<>>
    /\ series_groups = <<>>
    /\ use_multi_plane = TRUE
    /\ series_roots = <<>>
    /\ fs = EmptyFs
    /\ result = NoResult
    /\ last = "none"
    /\ resp = NoResponse
    /\ env_force_uid \in ForceChoices
    /\ sel = SelIdle
    /\ mesh = MeshIdle
    /\ outputs = {}
    /\ pipe = PipeIdle
    /\ seg = SegIdle
    /\ jobs = Off /\ vol = Off /\ api = Off

\* POST /reconstruct/upload: the record is created pending and the task sent.
UploadDicom ==
    /\ db.status = "absent"
    /\ \E n \in 1..MaxFiles : \E fl \in [1..n -> SliceKinds] : files' = fl
    /\ db' = NewRecord
    /\ queue' = 1
    /\ deliveries' = 1
    /\ UNCHANGED <<store, pc, dicom_paths, series_groups, use_multi_plane,
                   series_roots, fs, result, last, resp, env_force_uid, sel, mesh, outputs, pipe, seg, jobs, vol, api>>

\* The broker hands the same task message to the worker once more.
Redeliver ==
    /\ db.status # "absent"
    /\ deliveries < MaxDeliveries
    /\ queue' = queue + 1
    /\ deliveries' = deliveries + 1
    /\ UNCHANGED <<files, db, store, pc, dicom_paths, series_groups, use_multi_plane,
                   series_roots, fs, result, last, resp, env_force_uid, sel, mesh, outputs, pipe, seg, jobs, vol, api>>

\* What every start of process_reconstruction does to the worker's locals.
BeginTask ==
    /\ pc = "idle"
    /\ queue > 0
    /\ queue' = queue - 1
    /\ dicom_paths' = <<>>
    /\ series_groups' = <<>>
    /\ series_roots' = <<>>
    /\ fs' = EmptyFs
    /\ result' = NoResult
    /\ use_multi_plane' = TRUE

\* process_reconstruction up to the call of process_dicom_to_mesh.
TaskStart ==
    /\ BeginTask
    /\ db' = [db EXCEPT !.status = "processing"]
    /\ pc' = "download"
    /\ last' = "running"
    /\ UNCHANGED <<files, store, deliveries, resp, env_force_uid, sel, mesh, outputs, pipe, seg, jobs, vol, api>>

\* The query raises: the handler reads the unbound name `reconstruction`
\* and raises in turn; nothing is committed.
TaskStartQueryFails ==
    /\ BeginTask
    /\ pc' = "idle"
    /\ last' = "raised"
    /\ UNCHANGED <<files, db, store, deliveries, resp, env_force_uid, sel, mesh, outputs, pipe, seg, jobs, vol, api>>

\* The commit of "processing" raises: the handler marks the record failed and
\* commits, which succeeds or raises again.
TaskStartCommitFails ==
    /\ BeginTask
    /\ pc' = "idle"
    /\ \E handler_commits \in BOOLEAN :
        /\ db' = IF handler_commits THEN RecordAfterException(db, DbError) ELSE db
        /\ last' = IF handler_commits THEN "handled" ELSE "raised"
    /\ UNCHANGED <<files, store, deliveries, resp, env_force_uid, sel, mesh, outputs, pipe, seg, jobs, vol, api>>

\* A return that leaves the workspace behind (a directory made with mkdtemp
\* and never removed).
ReturnLeavesWorkspace(res) ==
    /\ result' = res
    /\ fs' = fs
    /\ dicom_paths' = dicom_paths
    /\ series_groups' = <<>>
    /\ series_roots' = <<>>
    /\ outputs' = outputs
    /\ pc' = "finish"

\* A return of process_dicom_to_mesh_v2 from inside the workspace: the
\* temporary directory is removed.
Return(res) ==
    /\ result' = res
    /\ fs' = EmptyFs
    /\ dicom_paths' = <<>>
    /\ series_groups' = <<>>
    /\ series_roots' = <<>>
    /\ outputs' = {}
    /\ pc' = "finish"

\* Step 1: download; a file the store does not return is skipped.
V2Download ==
    /\ pc = "download"
    /\ \E got \in SUBSET (1..Len(files)) :
        IF got = {}
        THEN Return(ErrorResult("Failed to download DICOM files"))
        ELSE /\ dicom_paths' = Ascending(got)
             /\ pc' = "group"
             /\ UNCHANGED <<result, fs, series_groups, series_roots, outputs>>
    /\ UNCHANGED <<files, db, store, queue, deliveries, use_multi_plane,
                   last, resp, env_force_uid, sel, mesh, pipe, seg, jobs, vol, api>>

\* Step 2: group by series, dropping localizers.
V2Group ==
    /\ pc = "group"
    /\ LET groups == GroupSeries(files, dicom_paths, <<>>)
       IN IF groups = <<>>
          THEN Return(ErrorResult("No valid series found"))
          ELSE /\ series_groups' = groups
               /\ pc' = "plan"
               /\ UNCHANGED <<result, fs, dicom_paths, series_roots, outputs>>
    /\ UNCHANGED <<files, db, store, queue, deliveries, use_multi_plane,
                   last, resp, env_force_uid, sel, mesh, pipe, seg, jobs, vol, api>>

\* Memory guard, series metadata and step 3 up to the call of run_reconstruction.
V2Plan ==
    /\ pc = "plan"
    /\ LET entries == EntriesOf(files, series_groups)
           flag == OomGuard(use_multi_plane, entries)
           plan == PlanSeries(entries, flag, env_force_uid)
       IN /\ use_multi_plane' = flag
          /\ series_roots' = plan.roots
          /\ fs' = plan.fs
    /\ pc' = "recon"
    /\ UNCHANGED <<files, db, store, queue, deliveries, dicom_paths, series_groups,
                   result, last, resp, env_force_uid, sel, mesh, outputs, pipe, seg, jobs, vol, api>>

\* run_reconstruction returns the exported files or raises.
V2RunReconstruction ==
    /\ pc = "recon"
    /\ \/ /\ pc' = "upload_glb"
          /\ outputs' = {GlbPath(RecId), StlPath(RecId)}
          /\ UNCHANGED <<result, fs, dicom_paths, series_groups, series_roots>>
       \/ \E msg \in PipelineErrors : Return(ErrorResult(msg))
    /\ UNCHANGED <<files, db, store, queue, deliveries,
                   use_multi_plane, last, resp, env_force_uid, sel, mesh, pipe, seg, jobs, vol, api>>

\* Step 4, first upload: the GLB.
V2UploadGlb ==
    /\ pc = "upload_glb"
    /\ \/ /\ store' = store \cup {GlbKey(RecId)}
          /\ pc' = "upload_stl"
          /\ UNCHANGED <<result, fs, dicom_paths, series_groups, series_roots, outputs>>
       \/ /\ Return(ErrorResult(UploadError))
          /\ UNCHANGED store
    /\ UNCHANGED <<files, db, queue, deliveries,
                   use_multi_plane, last, resp, env_force_uid, sel, mesh, pipe, seg, jobs, vol, api>>

\* Step 4, second upload: the STL, then the success result.
V2UploadStl ==
    /\ pc = "upload_stl"
    /\ \/ /\ store' = store \cup {StlKey(RecId)}
          /\ Return(SuccessResult(RecId))
       \/ /\ Return(ErrorResult(UploadError))
          /\ UNCHANGED store
    /\ UNCHANGED <<files, db, queue, deliveries,
                   use_multi_plane, last, resp, env_force_uid, sel, mesh, pipe, seg, jobs, vol, api>>

\* process_reconstruction after process_dicom_to_mesh returned.
TaskFinish ==
    /\ pc = "finish"
    /\ db' = RecordAfter(db, result)
    /\ last' = "returned"
    /\ pc' = "idle"
    /\ UNCHANGED <<files, store, queue, deliveries, dicom_paths, series_groups,
                   use_multi_plane, series_roots, fs, result, resp, env_force_uid,
                   sel, mesh, outputs, pipe, seg, jobs, vol, api>>

\* The final commit raises: the handler marks the record failed and commits,
\* which succeeds or raises again.
TaskFinishCommitFails ==
    /\ pc = "finish"
    /\ \E handler_commits \in BOOLEAN :
        /\ db' = IF handler_commits THEN RecordAfterException(db, DbError) ELSE db
        /\ last' = IF handler_commits THEN "handled" ELSE "raised"
    /\ pc' = "idle"
    /\ UNCHANGED <<files, store, queue, deliveries, dicom_paths, series_groups,
                   use_multi_plane, series_roots, fs, result, resp, env_force_uid,
                   sel, mesh, outputs, pipe, seg, jobs, vol, api>>

\* GET /reconstruct/{id}/download
DownloadReconstruction ==
    /\ \E format \in {"stl", "gltf", "obj"} : resp' = DownloadResponse(db, format)
    /\ UNCHANGED <<files, db, store, queue, deliveries, pc, dicom_paths, series_groups,
                   use_multi_plane, series_roots, fs, result, last, env_force_uid,
                   sel, mesh, outputs, pipe, seg, jobs, vol, api>>

Next ==
    \/ UploadDicom
    \/ Redeliver
    \/ TaskStart
    \/ TaskStartQueryFails
    \/ TaskStartCommitFails
    \/ V2Download
    \/ V2Group
    \/ V2Plan
    \/ V2RunReconstruction
    \/ V2UploadGlb
    \/ V2UploadStl
    \/ TaskFinish
    \/ TaskFinishCommitFails
    \/ DownloadReconstruction

Spec == Init /\ [][Next]_vars

----------------------------------------------------------------------------
(* SpecSel: the series-level decisions of process_dicom_to_mesh_v2, from    *)
(* the grouped series to the directories handed to run_reconstruction.     *)

SelCounts == {30, 40, 80, 120}
SelSpacings == {10, 20, 50}

JobIdle ==
    /\ files = <<>>
    /\ db = NoRecord
    /\ store = {}
    /\ queue = 0
    /\ deliveries = 0
    /\ pc = "idle"
    /\ dicom_paths = <<>>
    /\ series_groups = <<>>
    /\ use_multi_plane = TRUE
    /\ series_roots = <<>>
    /\ fs = EmptyFs
    /\ result = NoResult
    /\ last = "none"
    /\ resp = NoResponse
    /\ env_force_uid = NoForce
    /\ outputs = {}

\* Orders in which k different series can first appear in the input.
SeriesOrders(k) ==
    {q \in [1..k -> UIDs] : \A i, j \in 1..k : i # j => q[i] # q[j]}

InitSel ==
    /\ JobIdle
    /\ mesh = MeshIdle
    /\ pipe = PipeIdle
    /\ seg = SegIdle
    /\ jobs = Off /\ vol = Off /\ api = Off
    /\ \E k \in 1..MaxSeries :
        \E q \in SeriesOrders(k) :
            \E ns \in [1..k -> SelCounts] :
                \E zs \in [1..k -> SelSpacings] :
                    \E force \in ForceChoices :
                        \E requested \in BOOLEAN :
                            sel = [pc |-> "guard",
                                   entries |-> [i \in 1..k |->
                                                  Entry(q[i], {q[i]}, ns[i], zs[i])],
                                   force |-> force,
                                   requested |-> requested,
                                   use_multi_plane |-> requested,
                                   plan |-> [multi |-> FALSE, primary |-> NoUid,
                                             roots |-> <<>>, fs |-> EmptyFs]]

\* The memory guard.
SelGuard ==
    /\ sel.pc = "guard"
    /\ sel' = [sel EXCEPT !.use_multi_plane = OomGuard(sel.use_multi_plane, sel.entries),
                          !.pc = "plan"]
    /\ UNCHANGED <<jobVars, mesh, outputs, pipe, seg, jobs, vol, api>>

\* Step 3 up to the call of run_reconstruction.
SelPlan ==
    /\ sel.pc = "plan"
    /\ sel' = [sel EXCEPT !.plan = PlanSeries(sel.entries, sel.use_multi_plane, sel.force),
                          !.pc = "done"]
    /\ UNCHANGED <<jobVars, mesh, outputs, pipe, seg, jobs, vol, api>>

NextSel ==
    \/ SelGuard
    \/ SelPlan

SpecSel == InitSel /\ [][NextSel]_vars

----------------------------------------------------------------------------
(* SpecMesh: where mesh_from_mask and mask_to_mesh put the surface point   *)
(* of a voxel. Reals are integers in millionths, so that the factor 0.001  *)
(* is computed exactly.                                                    *)

Fx(thousandths) == thousandths * 1000

\* x * 0.001
Times001(x) == x \div 1000

\* t[::-1]
Reverse3(t) == <<t[3], t[2], t[1]>>

\* sitk.GetArrayFromImage: voxel (i, j, k) is the array element [k][j][i].
ArrayIndex(vox) == Reverse3(vox)

\* measure.marching_cubes(..., spacing=sp): a vertex at array index idx.
MarchingCubesVertex(idx, sp) == <<idx[1] * sp[1], idx[2] * sp[2], idx[3] * sp[3]>>

\* direction @ v
MatVec(m, v) ==
    [r \in 1..3 |-> m[r][1] * v[1] + m[r][2] * v[2] + m[r][3] * v[3]]

\* mesh_from_mask(mask, spacing): the vertex emitted for a voxel of the mask.
MeshFromMaskVertex(vox, spacing) ==
    LET verts == MarchingCubesVertex(ArrayIndex(vox), Reverse3(spacing))
    IN <<Times001(-verts[1]), Times001(verts[3]), Times001(verts[2])>>

\* mask_to_mesh(mask_img): the vertex emitted for a voxel of the mask.
MaskToMeshVertex(vox, spacing, origin, direction) ==
    LET verts == MarchingCubesVertex(ArrayIndex(vox), Reverse3(spacing))
        verts_xyz == <<verts[3], verts[2], verts[1]>>
        rotated == MatVec(direction, verts_xyz)
        p_lps == [r \in 1..3 |-> rotated[r] + origin[r]]
    IN <<Times001(-p_lps[1]), Times001(p_lps[3]), Times001(p_lps[2])>>

NoVertex == <<>>

MeshSpacings == { <<Fx(1000), Fx(1000), Fx(1000)>>, <<Fx(800), Fx(800), Fx(3000)>> }
MeshOrigins == { <<0, 0, 0>>, <<Fx(-120500), Fx(35250), Fx(10000)>> }
MeshDirections ==
    { <<<<1, 0, 0>>, <<0, 1, 0>>, <<0, 0, 1>>>>,
      <<<<1, 0, 0>>, <<0, 0, -1>>, <<0, 1, 0>>>>,
      <<<<0, 0, 1>>, <<1, 0, 0>>, <<0, 1, 0>>>> }

InitMesh ==
    /\ JobIdle
    /\ sel = SelIdle
    /\ pipe = PipeIdle
    /\ seg = SegIdle
    /\ jobs = Off /\ vol = Off /\ api = Off
    /\ \E sp \in MeshSpacings : \E o \in MeshOrigins : \E d \in MeshDirections :
        \E i, j, k \in 0..MaxIndex :
            mesh = [pc |-> "mask", spacing |-> sp, origin |-> o, direction |-> d,
                    vox |-> <<i, j, k>>, bone |-> NoVertex, muscle |-> NoVertex]

\* run_reconstruction, bone: mesh_from_mask(bone_mask_arr, iso_spacing).
MeshFromMask ==
    /\ mesh.pc = "mask"
    /\ mesh.bone = NoVertex
    /\ mesh' = [mesh EXCEPT !.bone = MeshFromMaskVertex(mesh.vox, mesh.spacing)]
    /\ UNCHANGED <<jobVars, sel, outputs, pipe, seg, jobs, vol, api>>

\* run_reconstruction, muscle: mask_to_mesh(mus).
MaskToMesh ==
    /\ mesh.pc = "mask"
    /\ mesh.muscle = NoVertex
    /\ mesh' = [mesh EXCEPT !.muscle =
                   MaskToMeshVertex(mesh.vox, mesh.spacing, mesh.origin, mesh.direction)]
    /\ UNCHANGED <<jobVars, sel, outputs, pipe, seg, jobs, vol, api>>

NextMesh ==
    \/ MeshFromMask
    \/ MaskToMesh

SpecMesh == InitMesh /\ [][NextMesh]_vars

----------------------------------------------------------------------------
(* SpecPipe: run_reconstruction stage by stage, followed by the uploads of  *)
(* process_dicom_to_mesh_v2 and the commit of process_reconstruction.       *)
(* Spacings are in tenths of a millimetre.                                  *)

MaxRoots == 2

TargetSpacing == 10
SegInPlane == 8
SegMaxZ == 30
BoneDecimateAbove == 150000
MuscleDecimateAbove == 200000
MuscleMinFaces == 8000
MuscleStep == 2
DefaultStep == 1

\* A series directory as the reader sees it: through-plane spacing and
\* whether its slices agree in rows/columns, in-plane spacing and orientation.
RootKinds ==
    { [xy |-> 8, z |-> 10, geometry |-> "consistent"],
      [xy |-> 8, z |-> 30, geometry |-> "consistent"],
      [xy |-> 8, z |-> 50, geometry |-> "consistent"],
      [xy |-> 8, z |-> 30, geometry |-> "orientation"],
      [xy |-> 8, z |-> 10, geometry |-> "size"] }

TissueChoices == { <<"bone">>, <<"bone", "muscle">>, <<"muscle">>, <<"body", "bone">> }

\* What marching cubes finds in a mask: faces, connected components and
\* degenerate triangles of the extracted surface.
RawSurfaces ==
    { [faces |-> 100000, blobs |-> 1, degenerate |-> 0],
      [faces |-> 240000, blobs |-> 1, degenerate |-> 0],
      [faces |-> 100000, blobs |-> 2, degenerate |-> 0],
      [faces |-> 100000, blobs |-> 1, degenerate |-> 1] }

Min(a, b) == IF a <= b THEN a ELSE b
Max(a, b) == IF a >= b THEN a ELSE b

\* n4_bias without its try/except: the filter's exception leaves the function.
N4BiasNoHandler(img, n4_raises) ==
    [ok |-> ~n4_raises, img |-> [img EXCEPT !.corrected = ~n4_raises]]

\* n4_bias: the corrected image, or the uncorrected one when the filter raises.
N4Bias(img, n4_raises) ==
    [ok |-> TRUE, img |-> [img EXCEPT !.corrected = ~n4_raises]]

\* to_isotropic(img, iso): B-spline resampling to (iso, iso, iso).
ToIsotropic(img, iso) ==
    [img EXCEPT !.spacing = <<iso, iso, iso>>, !.interp = "bspline"]

\* The image load_series_by_files returns for a series directory.
LoadedImage(root) ==
    [z0 |-> root.z, geometry |-> root.geometry, corrected |-> FALSE,
     spacing |-> <<root.xy, root.xy, root.z>>, interp |-> "none"]

\* mesh_from_mask: step size forced to 1, no clean-up of the surface,
\* decimation to 75% above 150000 faces when a backend is there.
MeshFromMaskMesh(raw, env_step, backend) ==
    [tissue |-> "bone",
     steps |-> {1},
     warned |-> env_step # "1",
     raw_faces |-> raw.faces,
     faces |-> IF raw.faces > BoneDecimateAbove /\ backend
               THEN (raw.faces * 75) \div 100 ELSE raw.faces,
     components |-> raw.blobs,
     degenerate |-> raw.degenerate]

\* mask_to_mesh: step size 2 (1 on the retry after a level error),
\* degenerate faces removed, largest component kept, decimation to 70%
\* above 200000 faces when a backend is there.
MaskToMeshMesh(raw, level_error, backend) ==
    [tissue |-> "muscle",
     steps |-> IF level_error THEN {MuscleStep, DefaultStep} ELSE {MuscleStep},
     warned |-> FALSE,
     raw_faces |-> raw.faces,
     faces |-> IF raw.faces > MuscleDecimateAbove /\ backend
               THEN Max(MuscleMinFaces, (raw.faces * 7) \div 10) ELSE raw.faces,
     components |-> 1,
     degenerate |-> 0]

\* mask_to_mesh on an empty mask: an empty mesh, no extraction.
EmptyMesh ==
    [tissue |-> "muscle", steps |-> {}, warned |-> FALSE, raw_faces |-> 0,
     faces |-> 0, components |-> 0, degenerate |-> 0]

RECURSIVE SumOf(_, _)
SumOf(meshes, field) ==
    IF meshes = <<>> THEN 0 ELSE Head(meshes)[field] + SumOf(Tail(meshes), field)

\* export_meshes: the concatenation of the meshes, written as GLB and STL.
ExportMeshes(meshes) ==
    [faces |-> SumOf(meshes, "faces"),
     components |-> SumOf(meshes, "components"),
     degenerate |-> SumOf(meshes, "degenerate"),
     compressed |-> FALSE]

NoExport == [faces |-> 0, components |-> 0, degenerate |-> 0, compressed |-> FALSE]

InSeq(x, q) == \E i \in 1..Len(q) : q[i] = x

\* The ways the gltf-transform subprocess of the legacy export can end.
CompressorOutcomes == {"ok", "nonzero", "no_output", "timeout", "not_found", "error"}

\* The legacy export's GLB: Draco-compressed when the subprocess succeeded,
\* the uncompressed buffer on every other outcome.
DracoCompressed(outcome) == outcome = "ok"

\* The record while process_dicom_to_mesh runs.
ProcessingRecord == [NewRecord EXCEPT !.status = "processing"]

InitPipe ==
    /\ JobIdle
    /\ sel = SelIdle
    /\ mesh = MeshIdle
    /\ seg = SegIdle
    /\ jobs = Off /\ vol = Off /\ api = Off
    /\ \E n \in 1..MaxRoots : \E roots \in [1..n -> RootKinds] :
        \E tissues \in TissueChoices : \E f25 \in {"1", "0"} : \E mcs \in {"1", "2"} :
        \E use_superres \in BOOLEAN :
            pipe = [pc |-> "load", roots |-> roots, tissues |-> tissues,
                    force_25d |-> f25, mc_step |-> mcs, use_superres |-> use_superres,
                    cancel_at |-> "no",
                    stacks |-> <<>>, vols |-> <<>>, fused |-> <<>>,
                    ran_25d |-> FALSE, resamples |-> {}, meshes |-> <<>>,
                    exported |-> NoExport, faults |-> {}, result |-> NoResult,
                    store |-> {}, record |-> ProcessingRecord]

\* An exception leaves run_reconstruction (or an upload raises): the handler
\* of process_dicom_to_mesh_v2 turns it into an error result.
PipeRaise(msg, faults) ==
    pipe' = [pipe EXCEPT !.pc = "record", !.result = ErrorResult(msg),
                         !.faults = pipe.faults \cup faults]

RECURSIVE SelectLoaded(_, _, _)
SelectLoaded(roots, ok, i) ==
    IF i > Len(roots) THEN <<>>
    ELSE (IF ok[i] THEN <<LoadedImage(roots[i])>> ELSE <<>>)
         \o SelectLoaded(roots, ok, i + 1)

\* Step 1: each directory is read; one that cannot be read is skipped.
PipeLoad ==
    /\ pipe.pc = "load"
    /\ \E ok \in [1..Len(pipe.roots) -> BOOLEAN] :
        LET stacks == SelectLoaded(pipe.roots, ok, 1)
            failed == IF \E i \in DOMAIN ok : ~ok[i] THEN {"load"} ELSE {}
        IN IF stacks = <<>>
           THEN PipeRaise("Processing failed: No DICOM stacks loaded", failed)
           ELSE pipe' = [pipe EXCEPT !.pc = "preprocess", !.stacks = stacks,
                                     !.faults = pipe.faults \cup failed]
    /\ UNCHANGED <<jobVars, sel, mesh, outputs, seg, jobs, vol, api>>

\* Step 2: N4, isotropic resampling and body mask of every stack.
PipePreprocess ==
    /\ pipe.pc = "preprocess"
    /\ \E n4_raises \in SUBSET (1..Len(pipe.stacks)) : \E later_raises \in BOOLEAN :
        LET n4 == [i \in 1..Len(pipe.stacks) |-> N4Bias(pipe.stacks[i], i \in n4_raises)]
            faults == (IF n4_raises # {} THEN {"n4"} ELSE {})
                      \cup (IF later_raises THEN {"preprocess"} ELSE {})
        IN IF later_raises \/ \E i \in 1..Len(n4) : ~n4[i].ok
           THEN PipeRaise("Processing failed: preprocessing", faults)
           ELSE pipe' = [pipe EXCEPT
                    !.pc = "fuse",
                    !.vols = [i \in 1..Len(n4) |-> ToIsotropic(n4[i].img, TargetSpacing)],
                    !.resamples = pipe.resamples \cup
                        {[what |-> "intensity", z0 |-> n4[i].img.z0,
                          to |-> <<TargetSpacing, TargetSpacing, TargetSpacing>>,
                          interp |-> "bspline"] : i \in 1..Len(n4)},
                    !.faults = pipe.faults \cup faults]
    /\ UNCHANGED <<jobVars, sel, mesh, outputs, seg, jobs, vol, api>>

\* Step 3: the single volume, or registration to the first volume (a failed
\* registration keeps the unregistered volume), fusion and the release of
\* the volume list; then the test `opts.use_superres and len(iso_vols) > 1`
\* and the optional super-resolution, whose failures keep the fused volume.
PipeFuse ==
    /\ pipe.pc = "fuse"
    /\ \E reg_raises \in BOOLEAN : \E superres_ok \in BOOLEAN :
        LET \* `del iso_vols` in the branch of two or more volumes unbinds the name
            released == Len(pipe.vols) # 1
            fused == [spacing |-> pipe.vols[1].spacing,
                      z0 |-> {pipe.vols[i].z0 : i \in 1..Len(pipe.vols)},
                      corrected |-> {pipe.vols[i].corrected : i \in 1..Len(pipe.vols)},
                      superres |-> FALSE]
            faults == pipe.faults \cup (IF reg_raises THEN {"register"} ELSE {})
        IN /\ reg_raises => Len(pipe.vols) > 1
           /\ IF pipe.use_superres /\ released
              THEN /\ ~superres_ok
                   /\ PipeRaise("Processing failed: cannot access local variable 'iso_vols'",
                                faults \cup {"released"})
              ELSE IF pipe.use_superres /\ Len(pipe.vols) > 1
              THEN pipe' = [pipe EXCEPT
                      !.pc = "bone", !.stacks = <<>>, !.vols = <<>>,
                      !.fused = <<[fused EXCEPT !.superres = superres_ok]>>,
                      !.faults = faults \cup (IF superres_ok THEN {} ELSE {"superres"})]
              ELSE /\ ~superres_ok
                   /\ pipe' = [pipe EXCEPT
                         !.pc = "bone", !.stacks = <<>>, !.vols = <<>>,
                         !.fused = <<fused>>, !.faults = faults]
    /\ UNCHANGED <<jobVars, sel, mesh, outputs, seg, jobs, vol, api>>

\* The branch condition of the bone block: the 2.5D path is taken whenever
\* the fused volume has a 3-tuple spacing; force_25d is only logged.
Use25D(force_25d, spacing) == Len(spacing) = 3

\* Step 4, bone.
PipeBone ==
    /\ pipe.pc = "bone"
    /\ IF ~InSeq("bone", pipe.tissues)
       THEN pipe' = [pipe EXCEPT !.pc = "muscle"]
       ELSE LET force_25d == pipe.force_25d # "0"
                fused == pipe.fused[1]
                sz == fused.spacing[3]
                seg_spacing == <<SegInPlane, SegInPlane, Min(sz, SegMaxZ)>>
                iso_spacing == <<TargetSpacing, TargetSpacing, TargetSpacing>>
                vol_seg == [what |-> "intensity", z0 |-> sz, to |-> seg_spacing,
                            interp |-> "linear"]
                mask_iso == [what |-> "mask", z0 |-> seg_spacing[3], to |-> iso_spacing,
                             interp |-> "nearest"]
            IN /\ Use25D(force_25d, fused.spacing)
               /\ \/ \* segment_bone_25d raises: logged, no bone mesh
                     pipe' = [pipe EXCEPT !.pc = "muscle", !.ran_25d = TRUE,
                                          !.resamples = @ \cup {vol_seg},
                                          !.faults = @ \cup {"bone"}]
                  \/ \* the mask has fewer than 2000 voxels: mesh_from_mask raises
                     pipe' = [pipe EXCEPT !.pc = "muscle", !.ran_25d = TRUE,
                                          !.resamples = @ \cup {vol_seg, mask_iso},
                                          !.faults = @ \cup {"empty_mask"}]
                  \/ \E raw \in RawSurfaces : \E backend \in BOOLEAN :
                        pipe' = [pipe EXCEPT
                            !.pc = "muscle", !.ran_25d = TRUE,
                            !.resamples = @ \cup {vol_seg, mask_iso},
                            !.meshes = Append(@, MeshFromMaskMesh(raw, pipe.mc_step, backend)),
                            !.faults = @ \cup (IF raw.faces > BoneDecimateAbove /\ ~backend
                                               THEN {"decimation"} ELSE {})]
    /\ UNCHANGED <<jobVars, sel, mesh, outputs, seg, jobs, vol, api>>

\* Step 4, muscle.
PipeMuscle ==
    /\ pipe.pc = "muscle"
    /\ IF ~InSeq("muscle", pipe.tissues)
       THEN pipe' = [pipe EXCEPT !.pc = "export"]
       ELSE \/ \* body_mask, muscle_mask or mask_to_mesh raises: logged, no muscle mesh
               pipe' = [pipe EXCEPT !.pc = "export", !.faults = @ \cup {"muscle"}]
            \/ \* empty mask
               pipe' = [pipe EXCEPT !.pc = "export", !.meshes = Append(@, EmptyMesh)]
            \/ \E raw \in RawSurfaces : \E level_error \in BOOLEAN : \E backend \in BOOLEAN :
                  pipe' = [pipe EXCEPT
                      !.pc = "export",
                      !.meshes = Append(@, MaskToMeshMesh(raw, level_error, backend)),
                      !.faults = @ \cup (IF raw.faces > MuscleDecimateAbove /\ ~backend
                                         THEN {"decimation"} ELSE {})]
    /\ UNCHANGED <<jobVars, sel, mesh, outputs, seg, jobs, vol, api>>

\* Step 5: export, or the error of a job without meshes.
PipeExport ==
    /\ pipe.pc = "export"
    /\ IF pipe.meshes = <<>>
       THEN PipeRaise("Processing failed: No meshes generated (check tissue options)",
                      {"no_mesh"})
       ELSE pipe' = [pipe EXCEPT !.pc = "upload_glb",
                                 !.exported = ExportMeshes(pipe.meshes)]
    /\ UNCHANGED <<jobVars, sel, mesh, outputs, seg, jobs, vol, api>>

\* The uploads of process_dicom_to_mesh_v2.
PipeUploadGlb ==
    /\ pipe.pc = "upload_glb"
    /\ \/ pipe' = [pipe EXCEPT !.pc = "upload_stl", !.store = @ \cup {GlbKey(RecId)}]
       \/ PipeRaise(UploadError, {"upload"})
    /\ UNCHANGED <<jobVars, sel, mesh, outputs, seg, jobs, vol, api>>

PipeUploadStl ==
    /\ pipe.pc = "upload_stl"
    /\ \/ pipe' = [pipe EXCEPT !.pc = "record", !.store = @ \cup {StlKey(RecId)},
                               !.result = SuccessResult(RecId)]
       \/ PipeRaise(UploadError, {"upload"})
    /\ UNCHANGED <<jobVars, sel, mesh, outputs, seg, jobs, vol, api>>

\* process_reconstruction commits the outcome.
PipeRecord ==
    /\ pipe.pc = "record"
    /\ pipe' = [pipe EXCEPT !.pc = "done", !.record = RecordAfter(pipe.record, pipe.result)]
    /\ UNCHANGED <<jobVars, sel, mesh, outputs, seg, jobs, vol, api>>

NextPipe ==
    \/ PipeLoad
    \/ PipePreprocess
    \/ PipeFuse
    \/ PipeBone
    \/ PipeMuscle
    \/ PipeExport
    \/ PipeUploadGlb
    \/ PipeUploadStl
    \/ PipeRecord

SpecPipe == InitPipe /\ [][NextPipe]_vars

\* SpecCancel: run_reconstruction and the uploads of one job on one series
\* directory, with a cancellation signal the environment may raise while a
\* stage of run_reconstruction runs. No statement of process_reconstruction,
\* process_dicom_to_mesh_v2 or run_reconstruction reads such a signal.
InitCancel ==
    /\ JobIdle
    /\ sel = SelIdle
    /\ mesh = MeshIdle
    /\ seg = SegIdle
    /\ jobs = Off /\ vol = Off /\ api = Off
    /\ \E root \in RootKinds : \E tissues \in TissueChoices :
            pipe = [pc |-> "load", roots |-> <<root>>, tissues |-> tissues,
                    force_25d |-> "1", mc_step |-> "1", use_superres |-> FALSE,
                    cancel_at |-> "no",
                    stacks |-> <<>>, vols |-> <<>>, fused |-> <<>>,
                    ran_25d |-> FALSE, resamples |-> {}, meshes |-> <<>>,
                    exported |-> NoExport, faults |-> {}, result |-> NoResult,
                    store |-> {}, record |-> ProcessingRecord]

\* The signal is raised while the stage at pipe.pc runs.
PipeCancel ==
    /\ pipe.pc \in {"load", "preprocess", "fuse", "bone", "muscle"}
    /\ pipe.cancel_at = "no"
    /\ pipe' = [pipe EXCEPT !.cancel_at = pipe.pc]
    /\ UNCHANGED <<jobVars, sel, mesh, outputs, seg, jobs, vol, api>>

SpecCancel == InitCancel /\ [][NextPipe \/ PipeCancel]_vars


-----------------------------------------------------------------------------
(* SpecSeg: segment_bone_25d slice by slice and its coverage banding, and   *)
(* bone_mask_adaptive. A slice mask is the set of its voxels; the voxels of *)
(* the body that no candidate ever holds are counted in `body` only.        *)

MaxSlices == 3

TargetMinPerMille == 8
TargetMaxPerMille == 80
MaxAttempts == 3
OverlapFifth == 5

\* Candidate masks a slice's thresholds can produce: a large region, regions
\* sharing one or two of its six voxels, a region apart from it, nothing.
SliceMasks == { {}, 1..6, {6, 7}, {5, 6, 7}, {7, 8} }

\* body.sum() of the volumes segmented.
BodySizes == {100, 1000}

\* `prev is None`
NoPrev == <<>>

\* inter < 0.2 * max(prev.sum(), 1)
InsufficientOverlap(cand, prev) ==
    OverlapFifth * Cardinality(cand \cap prev) < Max(Cardinality(prev), 1)

LowStart == 8
GradStart == 85
LowStep == 3
GradStep == 5
LowFloor == 5
GradCeil == 95

\* The retightening without its clamps.
RetightenUnclamped(low_p, grad_p) == <<low_p - LowStep, grad_p + GradStep>>

\* low_p = max(5, low_p - 3); grad_p = min(95, grad_p + 5)
Retighten(low_p, grad_p) ==
    <<Max(LowFloor, low_p - LowStep), Min(GradCeil, grad_p + GradStep)>>

\* The `for _ in range(3)` loop of one slice with a non-empty body: the
\* candidate of the first attempt whose overlap suffices, and the candidate
\* of the last attempt when none does; `tries` are the percentile pairs the
\* candidates were computed with, `p` the pair the loop ends with.
RECURSIVE Attempt(_, _, _, _, _)
Attempt(prev, cands, i, p, tries) ==
    LET used == Append(tries, p) IN
    IF prev = NoPrev \/ ~InsufficientOverlap(cands[i], prev[1])
    THEN [cand |-> cands[i], p |-> p, tries |-> used]
    ELSE IF i = MaxAttempts
         THEN [cand |-> cands[i], p |-> Retighten(p[1], p[2]), tries |-> used]
         ELSE Attempt(prev, cands, i + 1, Retighten(p[1], p[2]), used)

RECURSIVE VoxelSum(_)
VoxelSum(out) ==
    IF out = <<>> THEN 0 ELSE Cardinality(Head(out)) + VoxelSum(Tail(out))

\* cov > TARGET_MAX and cov < TARGET_MIN with cov = voxels / max(body, 1)
CoverageAbove(voxels, body) == 1000 * voxels > TargetMaxPerMille * Max(body, 1)
CoverageBelow(voxels, body) == 1000 * voxels < TargetMinPerMille * Max(body, 1)

\* Results of the openings and largest-component filter (each slice shrinks)
\* and of the closing (each slice grows; an empty slice stays empty).
Shrunk(out) ==
    { o \in [1..Len(out) -> SliceMasks] : \A z \in 1..Len(out) : o[z] \subseteq out[z] }
Grown(out) ==
    { o \in [1..Len(out) -> SliceMasks] :
        \A z \in 1..Len(out) : out[z] \subseteq o[z] /\ (out[z] = {} => o[z] = {}) }

\* Voxel counts bone_mask_adaptive's thresholds can leave after post-processing.
AdaptiveVoxels == {0, 5, 90}

InitSeg ==
    /\ JobIdle
    /\ sel = SelIdle
    /\ mesh = MeshIdle
    /\ pipe = PipeIdle
    /\ jobs = Off /\ vol = Off /\ api = Off
    /\ \E fn \in {"segment_bone_25d", "bone_mask_adaptive"} :
       \E Z \in 1..MaxSlices : \E body \in BodySizes : \E has_logger \in BOOLEAN :
          /\ fn = "bone_mask_adaptive" => (Z = 1 /\ has_logger)
          /\ seg = [pc |-> IF fn = "segment_bone_25d" THEN "slice" ELSE "adaptive",
                    fn |-> fn, Z |-> Z, body |-> body, has_logger |-> has_logger,
                    out |-> <<>>, prev |-> NoPrev, voxels |-> 0,
                    p |-> <<LowStart, GradStart>>, tries |-> <<>>,
                    empty_body |-> {}, warnings |-> {}, raised |-> None]

\* One iteration of `for z in range(Z)`.
SegSlice ==
    /\ seg.pc = "slice"
    /\ \E body_empty \in BOOLEAN : \E cands \in [1..MaxAttempts -> SliceMasks] :
        IF body_empty /\ seg.prev = NoPrev
        THEN \* `cand` was never bound: out[z] = cand raises
             seg' = [seg EXCEPT !.pc = "done", !.raised = "UnboundLocalError",
                                !.empty_body = @ \cup {Len(seg.out) + 1}]
        ELSE LET loop == IF body_empty
                         THEN [cand |-> seg.prev[1], p |-> <<LowStart, GradStart>>,
                               tries |-> <<>>]
                         ELSE Attempt(seg.prev, cands, 1, <<LowStart, GradStart>>, <<>>)
                 cand == loop.cand
                 out == Append(seg.out, cand)
             IN seg' = [seg EXCEPT
                    !.out = out, !.prev = <<cand>>, !.voxels = VoxelSum(out),
                    !.p = loop.p, !.tries = loop.tries,
                    !.empty_body = IF body_empty THEN @ \cup {Len(out)} ELSE @,
                    !.pc = IF Len(out) = seg.Z THEN "band" ELSE "slice"]
    /\ UNCHANGED <<jobVars, sel, mesh, outputs, pipe, jobs, vol, api>>

\* The coverage banding and the return.
SegBand ==
    /\ seg.pc = "band"
    /\ LET cov == VoxelSum(seg.out) IN
       IF CoverageAbove(cov, seg.body)
       THEN \E out \in Shrunk(seg.out) :
               LET cov2 == VoxelSum(out) IN
               IF CoverageAbove(cov2, seg.body)
               THEN IF seg.has_logger
                    THEN seg' = [seg EXCEPT !.pc = "done", !.out = out, !.voxels = cov2,
                                    !.warnings = @ \cup {[text |-> "Coverage still high",
                                                          voxels |-> cov2]}]
                    ELSE \* logger.warning on None
                         seg' = [seg EXCEPT !.pc = "done", !.out = out, !.voxels = cov2,
                                            !.raised = "AttributeError"]
               ELSE seg' = [seg EXCEPT !.pc = "done", !.out = out, !.voxels = cov2]
       ELSE IF CoverageBelow(cov, seg.body)
       THEN \E out \in Grown(seg.out) :
               seg' = [seg EXCEPT !.pc = "done", !.out = out, !.voxels = VoxelSum(out)]
       ELSE seg' = [seg EXCEPT !.pc = "done"]
    /\ UNCHANGED <<jobVars, sel, mesh, outputs, pipe, jobs, vol, api>>

\* bone_mask_adaptive: one thresholding, and one retry when the coverage is
\* outside the band; the outcome is logged at info level.
SegAdaptive ==
    /\ seg.pc = "adaptive"
    /\ \E first \in AdaptiveVoxels : \E second \in AdaptiveVoxels :
        LET in_band == ~CoverageAbove(first, seg.body) /\ ~CoverageBelow(first, seg.body)
        IN seg' = [seg EXCEPT !.pc = "done",
                              !.voxels = IF in_band THEN first ELSE second]
    /\ UNCHANGED <<jobVars, sel, mesh, outputs, pipe, jobs, vol, api>>

NextSeg ==
    \/ SegSlice
    \/ SegBand
    \/ SegAdaptive

SpecSeg == InitSeg /\ [][NextSeg]_vars

-----------------------------------------------------------------------------
(* SpecVol: the sorting and outlier removal of read_volume_sorted on a      *)
(* stack of slices given by their projections dot(n, ImagePositionPatient), *)
(* in tenths of a millimetre.                                               *)

MaxStack == 4

\* Projections on a 1 mm grid, and one position between two grid positions.
StackPositions == {0, 10, 15, 20, 30, 40}

\* sorted(..., key=get_position_dot) and np.sort, on the projections.
RECURSIVE SortAscending(_)
SortAscending(ts) ==
    IF ts = <<>> THEN <<>>
    ELSE LET i == CHOOSE k \in 1..Len(ts) :
                    /\ \A j \in 1..Len(ts) : ts[k] <= ts[j]
                    /\ \A j \in 1..(k - 1) : ts[j] # ts[k]
         IN <<ts[i]>> \o SortAscending(SubSeq(ts, 1, i - 1) \o SubSeq(ts, i + 1, Len(ts)))

\* np.diff
Diff(ts) == [i \in 1..(Len(ts) - 1) |-> ts[i + 1] - ts[i]]

\* Twice np.median(deltas): the middle value, or the mean of the two middle ones.
TwiceMedian(deltas) ==
    LET d == SortAscending(deltas)
        n == Len(d)
    IN IF n % 2 = 1 THEN 2 * d[(n + 1) \div 2] ELSE d[n \div 2] + d[n \div 2 + 1]

\* delta > 0 and abs(delta - median_delta) / median_delta <= 0.2
WithinFifth(delta, twice_median) ==
    /\ delta > 0
    /\ twice_median > 0
    /\ LET dev == IF 2 * delta >= twice_median THEN 2 * delta - twice_median
                  ELSE twice_median - 2 * delta
       IN 5 * dev <= twice_median

\* The loop `for i in range(1, len(sorted_files))`: slice i is kept when its
\* distance to slice i-1 of the sorted list is within 20% of the median.
RECURSIVE KeepValid(_, _, _, _)
KeepValid(sorted, twice_median, i, valid) ==
    IF i > Len(sorted) THEN valid
    ELSE KeepValid(sorted, twice_median, i + 1,
            IF WithinFifth(sorted[i] - sorted[i - 1], twice_median)
            THEN Append(valid, sorted[i]) ELSE valid)

InitVol ==
    /\ JobIdle
    /\ sel = SelIdle
    /\ mesh = MeshIdle
    /\ pipe = PipeIdle
    /\ seg = SegIdle
    /\ jobs = Off /\ api = Off
    /\ \E n \in 1..MaxStack : \E ts \in [1..n -> StackPositions] :
          vol = [pc |-> "read", stack |-> ts, sorted |-> <<>>, twice_median |-> 0,
                 kept |-> <<>>]

\* read_volume_sorted up to the list of files handed to the reader.
ReadVolumeSorted ==
    /\ vol.pc = "read"
    /\ LET sorted == SortAscending(vol.stack)
           m2 == IF Len(sorted) > 2 THEN TwiceMedian(Diff(sorted)) ELSE 0
       IN vol' = [vol EXCEPT
              !.pc = "done", !.sorted = sorted, !.twice_median = m2,
              !.kept = IF Len(sorted) > 2
                       THEN KeepValid(sorted, m2, 2, <<sorted[1]>>) ELSE sorted]
    /\ UNCHANGED <<jobVars, sel, mesh, outputs, pipe, seg, jobs, api>>

SpecVol == InitVol /\ [][ReadVolumeSorted]_vars

-----------------------------------------------------------------------------
(* SpecJobs: two jobs of different reconstructions running at the same     *)
(* time on workers of one host: the workspace each creates, the files      *)
(* run_reconstruction exports and the objects process_dicom_to_mesh_v2     *)
(* uploads. `files` of the state are (path, job) pairs, `keys` (key, job).  *)

\* Names tempfile.TemporaryDirectory can return; it never returns a
\* directory that exists.
TempNames == {"tmpa", "tmpb", "tmpc"}

\* Primary keys of reconstruction records (uuid4).
RecIds == {"r1", "r2", "r3"}

\* The export paths when run_reconstruction is given no output_dir or
\* recon_id: relative to the working directory of the process.
ExportPathDefault(output_dir, recon_id, ext) == <<"output", "mesh", ext>>

\* The export paths of run_reconstruction.
ExportPath(output_dir, recon_id, ext) ==
    IF output_dir # <<>> /\ recon_id # None
    THEN output_dir \o <<recon_id, ext>>
    ELSE <<"output", "mesh", ext>>

InitJobs ==
    /\ JobIdle
    /\ sel = SelIdle
    /\ mesh = MeshIdle
    /\ pipe = PipeIdle
    /\ seg = SegIdle
    /\ vol = Off /\ api = Off
    /\ \E ids \in [1..2 -> RecIds] :
          /\ ids[1] # ids[2]
          /\ jobs = [pc |-> [j \in 1..2 |-> "queued"], id |-> ids,
                     temp |-> [j \in 1..2 |-> "none"], files |-> {}, keys |-> {}]

\* with tempfile.TemporaryDirectory() as temp_dir
JobStart(j) ==
    /\ jobs.pc[j] = "queued"
    /\ \E t \in TempNames :
          /\ \A k \in 1..2 : jobs.temp[k] # t
          /\ jobs' = [jobs EXCEPT !.pc[j] = "recon", !.temp[j] = t]
    /\ UNCHANGED <<jobVars, sel, mesh, outputs, pipe, seg, vol, api>>

\* run_reconstruction with output_dir = temp_path / "output" and the
\* record's id: it exports the two files, or raises.
JobExport(j) ==
    /\ jobs.pc[j] = "recon"
    /\ \/ LET output_dir == <<jobs.temp[j], "output">>
              glb == ExportPath(output_dir, jobs.id[j], "glb")
              stl == ExportPath(output_dir, jobs.id[j], "stl")
          IN jobs' = [jobs EXCEPT !.pc[j] = "upload",
                                  !.files = @ \cup {<<glb, j>>, <<stl, j>>}]
       \/ jobs' = [jobs EXCEPT !.pc[j] = "exit"]
    /\ UNCHANGED <<jobVars, sel, mesh, outputs, pipe, seg, vol, api>>

\* The two uploads, or an upload that raises.
JobUpload(j) ==
    /\ jobs.pc[j] = "upload"
    /\ \/ jobs' = [jobs EXCEPT !.pc[j] = "exit",
                               !.keys = @ \cup {<<GlbKey(jobs.id[j]), j>>,
                                                <<StlKey(jobs.id[j]), j>>}]
       \/ jobs' = [jobs EXCEPT !.pc[j] = "exit",
                               !.keys = @ \cup {<<GlbKey(jobs.id[j]), j>>}]
       \/ jobs' = [jobs EXCEPT !.pc[j] = "exit"]
    /\ UNCHANGED <<jobVars, sel, mesh, outputs, pipe, seg, vol, api>>

\* The with block is left: the workspace and what it holds are removed.
JobExit(j) ==
    /\ jobs.pc[j] = "exit"
    /\ jobs' = [jobs EXCEPT !.pc[j] = "done", !.temp[j] = "none",
                            !.files = {f \in @ : f[2] # j}]
    /\ UNCHANGED <<jobVars, sel, mesh, outputs, pipe, seg, vol, api>>

NextJobs ==
    \E j \in 1..2 :
        \/ JobStart(j)
        \/ JobExport(j)
        \/ JobUpload(j)
        \/ JobExit(j)

SpecJobs == InitJobs /\ [][NextJobs]_vars

----------------------------------------------------------------------------
(* The HTTP API over the object store (api/reconstruct.py, api/storage.py): *)
(* two authenticated users upload, poll their records and fetch objects.    *)

Users == {"A", "B"}

\* object_name = f"dicom/{current_user.id}/{reconstruction_id}/{idx:04d}_{file.filename}"
DicomObject(user, rid) == <<"dicom", user, rid, "0000_a.dcm">>

InitApi ==
    /\ JobIdle
    /\ sel = SelIdle
    /\ mesh = MeshIdle
    /\ pipe = PipeIdle
    /\ seg = SegIdle
    /\ jobs = Off /\ vol = Off
    /\ api = [pc |-> "on",
              owner |-> [r \in RecIds |-> None],
              gltf_url |-> [r \in RecIds |-> NoKey],
              stl_url |-> [r \in RecIds |-> NoKey],
              objects |-> {},
              resp |-> [user |-> None, code |-> 0, body |-> NoKey, urls |-> {}]]

\* POST /reconstruct/upload: the slice is stored under the caller's prefix and
\* a record owned by the caller is created.
ApiUpload(user) ==
    /\ api.pc = "on"
    /\ \E rid \in RecIds :
          /\ api.owner[rid] = None
          /\ api' = [api EXCEPT
                 !.owner[rid] = user,
                 !.objects = @ \cup {DicomObject(user, rid)},
                 !.resp = [user |-> user, code |-> 200, body |-> NoKey,
                           urls |-> {}]]
    /\ UNCHANGED <<jobVars, sel, mesh, outputs, pipe, seg, jobs, vol>>

\* The worker finishes a record: both meshes are uploaded under mesh/<id>/ and
\* their keys are written to the record.
ApiWorker(rid) ==
    /\ api.pc = "on"
    /\ api.owner[rid] # None
    /\ api.gltf_url[rid] = NoKey
    /\ api' = [api EXCEPT
           !.objects = @ \cup {GlbKey(rid), StlKey(rid)},
           !.gltf_url[rid] = GlbKey(rid),
           !.stl_url[rid] = StlKey(rid)]
    /\ UNCHANGED <<jobVars, sel, mesh, outputs, pipe, seg, jobs, vol>>

\* GET /reconstruct/{id}: the record is looked up by id AND owner; the answer
\* carries the storage URLs of the record's objects.
ApiGetReconstruction(user, rid) ==
    /\ api.pc = "on"
    /\ IF api.owner[rid] = user
       THEN api' = [api EXCEPT !.resp =
                [user |-> user, code |-> 200, body |-> NoKey,
                 urls |-> ({api.stl_url[rid], api.gltf_url[rid],
                            DicomObject(user, rid)} \ {NoKey})]]
       ELSE api' = [api EXCEPT !.resp =
                [user |-> user, code |-> 404, body |-> NoKey, urls |-> {}]]
    /\ UNCHANGED <<jobVars, sel, mesh, outputs, pipe, seg, jobs, vol>>

\* GET /storage/{object_path}: the caller is authenticated, the object is
\* read by its path and streamed back.  A missing object raises the 404
\* inside the try block, which the handler turns into a 500.
ApiGetStorageFile(user, object_path) ==
    /\ api.pc = "on"
    /\ IF object_path \in api.objects
       THEN \/ api' = [api EXCEPT !.resp =
                   [user |-> user, code |-> 200, body |-> object_path,
                    urls |-> {}]]
            \/ api' = [api EXCEPT !.resp =       \* get_file caught an error
                   [user |-> user, code |-> 500, body |-> NoKey, urls |-> {}]]
       ELSE api' = [api EXCEPT !.resp =
                [user |-> user, code |-> 500, body |-> NoKey, urls |-> {}]]
    /\ UNCHANGED <<jobVars, sel, mesh, outputs, pipe, seg, jobs, vol>>

NextApi ==
    \/ \E user \in Users : ApiUpload(user)
    \/ \E rid \in RecIds : ApiWorker(rid)
    \/ \E user \in Users, rid \in RecIds : ApiGetReconstruction(user, rid)
    \/ \E user \in Users, rid \in RecIds :
          \E object_path \in {DicomObject(u, rid) : u \in Users}
                               \cup {GlbKey(rid), StlKey(rid)} :
              ApiGetStorageFile(user, object_path)

SpecApi == InitApi /\ [][NextApi]_vars


----------------------------------------------------------------------------
(* Properties. *)

Terminal == {"completed", "failed"}

\* C1: once the record's status is completed or failed, no later step of any
\* execution of process_reconstruction changes it (the closing clause of the
\* claim, which its allowed moves pending -> processing -> completed | failed
\* imply).
C1_TerminalStatusNeverChanges ==
    [][db.status \in Terminal => db'.status = db.status]_vars

\* C2: when process_dicom_to_mesh_v2 has returned, the object store holds the
\* job's mesh.glb exactly if it holds the job's mesh.stl.
C2_BothOutputsOrNeither ==
    pc = "finish" => (GlbKey(RecId) \in store <=> StlKey(RecId) \in store)

\* C3: after process_reconstruction has returned for a pipeline that failed
\* with message M, the record is failed and its error_message is M.
C3_FailedRecordCarriesMessage ==
    (last = "returned" /\ result["status"] = "error")
        => (db.status = "failed" /\ db.error_message = result["message"])

C4_RecordShape ==
    /\ db.status = "completed" =>
         /\ db.stl_url = StlKey(RecId)
         /\ db.gltf_url = GlbKey(RecId)
         /\ db.error_message = None
    /\ db.status = "failed" => db.error_message \notin {None, ""}

C4_DownloadStep ==
    (DownloadReconstruction /\ resp'.code = 200) =>
        /\ db.status = "completed"
        /\ resp'.url \in {PresignedUrl(StlKey(RecId)), PresignedUrl(GlbKey(RecId))}

\* C4: a completed record has both output keys (the job's mesh.stl and
\* mesh.glb) and no error message, a failed record has a non-empty error
\* message, and the download endpoint answers with a URL only for a completed
\* record.
C4_TerminalRecordIsWellFormed ==
    []C4_RecordShape /\ [][C4_DownloadStep]_vars

\* A completed record for which the download endpoint has returned a URL.
C4_Witness ==
    db.status = "completed" /\ resp.code = 200

\* Whether a text contains LOCALIZER or SCOUT in any letter case.
NamesLocalizer(text) ==
    \E word \in {LOCALIZER, SCOUT} :
        \E i \in 0..(Len(text) - Len(word)) :
            \A j \in 1..Len(word) : UpperChar(text[i + j]) = word[j]

\* C6: no file of a directory handed to run_reconstruction is a slice whose
\* image type names LOCALIZER or SCOUT, in any letter case; and every
\* directory handed over exists.
C6_NoLocalizerHandedOver ==
    /\ \A d \in DOMAIN fs : \A f \in fs[d] : ~NamesLocalizer(files[f].image_type)
    /\ pc = "recon" => \A i \in 1..Len(series_roots) : series_roots[i] \in DOMAIN fs

\* run_reconstruction is about to run on a job whose downloaded files include
\* a readable localizer or scout slice of some series.
C6_Witness ==
    /\ pc = "recon"
    /\ \E d \in DOMAIN fs : fs[d] # {}
    /\ \E f \in SeqToSet(dicom_paths) :
        /\ files[f].readable
        /\ files[f].uid # NoUid
        /\ NamesLocalizer(files[f].image_type)

SelUids == {sel.entries[i].uid : i \in 1..Len(sel.entries)}

C8_ForcedSeriesWins ==
    (sel.pc = "done" /\ sel.force # NoForce /\ sel.force \in SelUids)
        => sel.force \in sel.plan.fs[sel.plan.roots[1]]

\* The same series in every order of first appearance.
Reorderings(entries) ==
    LET n == Len(entries)
    IN {[i \in 1..n |-> entries[p[i]]] :
          p \in {q \in [1..n -> 1..n] : \A i, j \in 1..n : i # j => q[i] # q[j]}}

\* C9: the primary series chosen is the same for every order in which the
\* series appear in the input.
C9_SelectionIgnoresOrder ==
    (sel.pc = "done" /\ ~sel.plan.multi)
        => \A q \in Reorderings(sel.entries) :
              ChoosePrimarySeries(q, sel.force) = sel.plan.primary

\* The rank choose_primary_series gives a series before any tie-break: 2 for
\* the fine limits, 1 for the moderate ones, 0 for the fallback.
SelectionScore(e) ==
    IF e.z <= FineZ /\ e.n >= FineN THEN 2
    ELSE IF e.z <= ModerateZ /\ e.n >= ModerateN THEN 1
    ELSE 0

\* C10: among series of identical score the selected one has the most
\* slices, and among those with as many slices the smallest through-plane
\* spacing.
C10_TieBreakBySlicesThenSpacing ==
    (sel.pc = "done" /\ ~sel.plan.multi /\ sel.force \notin SelUids)
        => LET w == EntryOf(sel.entries, sel.plan.primary)
           IN \A i \in 1..Len(sel.entries) :
                 LET c == sel.entries[i]
                 IN SelectionScore(c) = SelectionScore(w) =>
                       /\ w.n >= c.n
                       /\ w.n = c.n => w.z <= c.z

\* The position the claim gives the surface point of voxel (i, j, k):
\* 0.001 * (-L, S, P) with (L, P, S) = D * (i*sx, j*sy, k*sz) + o.
ClaimedVertex(vox, spacing, origin, direction) ==
    LET v == <<vox[1] * spacing[1], vox[2] * spacing[2], vox[3] * spacing[3]>>
        dv == MatVec(direction, v)
        L == dv[1] + origin[1]
        P == dv[2] + origin[2]
        S == dv[3] + origin[3]
    IN <<Times001(-L), Times001(S), Times001(P)>>

\* C5: both meshing functions emit the surface point of a voxel at the
\* claimed render-space position (and so at the same point).
C5_VertexAtClaimedPosition ==
    mesh.pc = "mask" =>
        LET claimed == ClaimedVertex(mesh.vox, mesh.spacing, mesh.origin, mesh.direction)
        IN /\ mesh.bone # NoVertex => mesh.bone = claimed
           /\ mesh.muscle # NoVertex => mesh.muscle = claimed

\* The messages of the two invalid-input returns of process_dicom_to_mesh_v2.
InvalidInputMessages == {"Failed to download DICOM files", "No valid series found"}

\* A slice that can be read, has a series identifier and is no localizer.
Survives(s) == s.readable /\ s.uid # NoUid /\ ~NamesLocalizer(s.image_type)

C12_Surfaced ==
    (last = "returned" /\ result["status"] = "error"
                       /\ result["message"] \in InvalidInputMessages)
        => (db.status = "failed" /\ db.error_message \in InvalidInputMessages)

C12_Step ==
    /\ (pc = "download" /\ pc' = "group") => dicom_paths' # <<>>
    /\ (pc = "group" /\ pc' = "plan") =>
          \E i \in 1..Len(dicom_paths) : Survives(files[dicom_paths[i]])
    /\ (pc \in {"download", "group"} /\ pc' = "finish") =>
          /\ result'["status"] = "error"
          /\ result'["message"] \in InvalidInputMessages
          /\ store' = store

\* C12: when no slice can be downloaded or read, or none survives filtering,
\* the job goes from the download or the grouping straight to its end without
\* starting run_reconstruction and without uploading anything, and it ends
\* with a failed record that carries the invalid-input error.
C12_InvalidInputFailsTheJob ==
    []C12_Surfaced /\ [][C12_Step]_vars

StageRecoverable == {"n4", "decimation"}

C13_EveryExtractionUsesStepOne ==
    \A i \in 1..Len(pipe.meshes) : pipe.meshes[i].steps \subseteq {1}

\* C14: with FORCE_25D set to "0" the job does not run segment_bone_25d.
C14_Force25DZeroDisablesBranch ==
    pipe.force_25d = "0" => ~pipe.ran_25d

\* C15: an intensity volume acquired with a through-plane spacing of 3 mm or
\* more is never resampled to isotropic spacing.
C15_ThickSlicesNeverIsotropic ==
    \A r \in pipe.resamples :
        (r.what = "intensity" /\ r.z0 >= SegMaxZ) =>
            ~(r.to[1] = r.to[2] /\ r.to[2] = r.to[3])

\* C18: every non-empty mesh that went into the exported files has no
\* degenerate triangle and exactly one connected component.
C18_ExportedMeshesAreClean ==
    pipe.pc \in {"upload_glb", "upload_stl", "record", "done"} =>
        \A i \in 1..Len(pipe.meshes) :
            pipe.meshes[i].faces > 0 =>
                pipe.meshes[i].degenerate = 0 /\ pipe.meshes[i].components = 1

\* C19: a job given a series whose slices disagree in rows, columns,
\* in-plane spacing or orientation ends failed.
C19_InconsistentSeriesFailsTheJob ==
    (pipe.pc = "done" /\ \E i \in 1..Len(pipe.roots) :
                            pipe.roots[i].geometry # "consistent") =>
        pipe.record.status = "failed"

\* C16: in the mask segment_bone_25d returns, every slice after the first
\* shares with its predecessor at least 20% of the predecessor's voxels.
C16_AcceptedSlicesOverlapPredecessor ==
    (seg.pc = "done" /\ seg.fn = "segment_bone_25d" /\ seg.raised = None) =>
        \A z \in 2..Len(seg.out) :
            OverlapFifth * Cardinality(seg.out[z] \cap seg.out[z - 1])
                >= Cardinality(seg.out[z - 1])

\* C17: when bone segmentation returns, the final coverage lies in the band
\* from 0.8% to 8% or a warning naming the coverage has been emitted.
C17_CoverageInBandOrWarned ==
    (seg.pc = "done" /\ seg.raised = None) =>
        \/ ~CoverageAbove(seg.voxels, seg.body) /\ ~CoverageBelow(seg.voxels, seg.body)
        \/ \E w \in seg.warnings : w.voxels = seg.voxels

\* C24: segment_bone_25d does not raise on a slice without body voxels, and
\* the mask it returns is empty at every such slice.
C24_EmptyBodySliceGetsEmptyMask ==
    (seg.pc = "done" /\ seg.fn = "segment_bone_25d") =>
        /\ seg.raised # "UnboundLocalError"
        /\ seg.raised = None => \A z \in seg.empty_body : seg.out[z] = {}

\* Between two slices of segment_bone_25d: the last slice's loop has ended
\* and its candidate is stored.
AfterSlice == seg.pc \in {"slice", "band"} /\ seg.out # <<>>

\* C23 as stated: at most three candidates per slice, the first computed
\* with (8, 85) and each later one with exactly p_lo - 3 and p_gr + 5, the
\* loop ending on the thresholds of the last candidate, all within [5, 95].
C23_ExactRetightening ==
    AfterSlice =>
        /\ Len(seg.tries) <= MaxAttempts
        /\ seg.tries # <<>> => seg.tries[1] = <<LowStart, GradStart>> /\ seg.p = seg.tries[Len(seg.tries)]
        /\ \A i \in 1..Len(seg.tries) - 1 :
              seg.tries[i + 1] = <<seg.tries[i][1] - LowStep, seg.tries[i][2] + GradStep>>
        /\ \A i \in 1..Len(seg.tries) :
              /\ seg.tries[i][1] >= LowFloor /\ seg.tries[i][1] <= GradCeil
              /\ seg.tries[i][2] >= LowFloor /\ seg.tries[i][2] <= GradCeil

\* C23 amended: as above, with each retightening clamped,
\* p_lo = max(5, p_lo - 3) and p_gr = min(95, p_gr + 5).
C23_ClampedRetightening ==
    AfterSlice =>
        /\ Len(seg.tries) <= MaxAttempts
        /\ seg.tries # <<>> => seg.tries[1] = <<LowStart, GradStart>> /\ seg.p = seg.tries[Len(seg.tries)]
        /\ \A i \in 1..Len(seg.tries) - 1 :
              seg.tries[i + 1] = <<Max(LowFloor, seg.tries[i][1] - LowStep),
                                  Min(GradCeil, seg.tries[i][2] + GradStep)>>
        /\ \A i \in 1..Len(seg.tries) :
              /\ seg.tries[i][1] >= LowFloor /\ seg.tries[i][1] <= GradCeil
              /\ seg.tries[i][2] >= LowFloor /\ seg.tries[i][2] <= GradCeil
        /\ seg.p[1] >= LowFloor /\ seg.p[2] <= GradCeil

C23_Witness ==
    /\ AfterSlice
    /\ Len(seg.tries) = MaxAttempts
    /\ seg.tries[MaxAttempts] = <<LowFloor, GradCeil>>
    /\ InsufficientOverlap(seg.out[Len(seg.out)], seg.out[Len(seg.out) - 1])

\* C27: with use_superres enabled the super-resolution step never reads the
\* released volume list and never ends the run.
C27_SuperresIsNotFatal ==
    pipe.use_superres => "released" \notin pipe.faults

\* C28: a run that returned a successful result produced a mesh for every
\* requested tissue.
C28_SuccessHasEveryRequestedTissue ==
    pipe.result["status"] = "success" =>
        \A t \in 1..Len(pipe.tissues) :
            \E i \in 1..Len(pipe.meshes) : pipe.meshes[i].tissue = pipe.tissues[t]

\* The stages of a job in the order the orchestrator starts them.
StageNumber ==
    [st \in {"load", "preprocess", "fuse", "bone", "muscle", "export",
              "upload_glb", "upload_stl"} |->
        CASE st = "load" -> 1 [] st = "preprocess" -> 2 [] st = "fuse" -> 3
          [] st = "bone" -> 4 [] st = "muscle" -> 5 [] st = "export" -> 6
          [] st = "upload_glb" -> 7 [] st = "upload_stl" -> 8]

\* C22: after a cancellation signal raised while a stage runs, the job gets
\* no further than the boundary after that stage: no later stage is started,
\* nothing is uploaded and the job does not return a success.
C22_CancellationStopsAtBoundary ==
    pipe.cancel_at # "no" =>
        /\ pipe.store = {}
        /\ pipe.result["status"] # "success"
        /\ pipe.pc \in DOMAIN StageNumber =>
              StageNumber[pipe.pc] <= StageNumber[pipe.cancel_at] + 1

\* C26: in the multi-plane branch no two series share a working directory
\* and the directory of a series holds that series' slices only.
C26_OneDirectoryPerSeries ==
    (sel.pc = "done" /\ sel.plan.multi) =>
        /\ \A i, j \in 1..Len(sel.plan.roots) :
              i # j => sel.plan.roots[i] # sel.plan.roots[j]
        /\ \A i \in 1..Len(sel.plan.roots) :
              sel.plan.fs[sel.plan.roots[i]] = sel.entries[i].items

\* C29: once the worker has handled every task message sent for a job and
\* is idle, with nothing left for it to run, the record is completed or
\* failed.
C29_HandledJobIsTerminal ==
    (deliveries > 0 /\ queue = 0 /\ pc = "idle") => db.status \in Terminal

\* C25: after the outlier removal of read_volume_sorted the retained
\* projections are strictly increasing and every gap between consecutive
\* retained slices is within 20% of the median gap.
C25_RetainedGapsNearMedian ==
    (vol.pc = "done" /\ Len(vol.sorted) > 2) =>
        \A i \in 1..(Len(vol.kept) - 1) :
            /\ vol.kept[i] < vol.kept[i + 1]
            /\ WithinFifth(vol.kept[i + 1] - vol.kept[i], vol.twice_median)

RecordOf(object_name) ==
    IF object_name[1] = "dicom" THEN object_name[3] ELSE object_name[2]

\* C30: whenever a request answers with the bytes of a stored object, the
\* object belongs to a reconstruction owned by the user who made the request.
C30_BytesOnlyOfOwnReconstructions ==
    (api.resp.code = 200 /\ api.resp.body # NoKey)
        => api.owner[RecordOf(api.resp.body)] = api.resp.user

====
